---- MODULE Spec2Model ----
(***************************************************************************)
(* webrender: the browser rendering session of ChromeBrowser.Image         *)
(* (package browser, src/unnamed/part_001), as a state machine.            *)
(*                                                                         *)
(* One render call owns an allocator context (actx), a browser context     *)
(* (browserCtx) derived from it, and one or two tab contexts with a        *)
(* deadline (tabCtx, newTabCtx) derived from browserCtx.  The main line    *)
(* of Image runs the pipelines buildTasks builds; the crash and dialog     *)
(* listeners and the deadline timers run beside it.                        *)
(***************************************************************************)
EXTENDS Integers, Sequences, FiniteSets, TLC

\* ------------------------------------------------------------------ bounds
NumCalls   == 2   \* call slots; Spec runs the calls one after another
MaxTimeout == 2   \* c.options.Timeout ranges over 0..MaxTimeout (seconds)
MaxHeaders == 1   \* len(c.options.HeadersMap) is 0 or MaxHeaders
MaxJsLen   == 1   \* len(c.options.JsCode) is 0 or MaxJsLen
MaxDelay   == 1   \* c.options.Delay is 0 or MaxDelay (seconds)
MaxDialogs == 1   \* dialog-accept goroutines in flight per call
MaxLeaked  == 1   \* cap of the count of scopes left live by collected calls
MaxLogged  == 1   \* c.logger.Debug calls counted per call

Calls == 1..NumCalls

\* ------------------------------------------------------------ scope names
\* The cancellation scopes of one call.  Tab contexts are numbered in the
\* order context.WithTimeout creates them.
Actx       == -1
BrowserCtx == 0
TabCtx     == 1
NewTabCtx  == 2

\* ------------------------------------------------------------------ values
NilErr           == "nil"
DeadlineExceeded == "DeadlineExceeded"   \* context.DeadlineExceeded
Canceled         == "Canceled"           \* context.Canceled
LaunchError      == "LaunchError"        \* chromedp.Run(browserCtx) failed
StepError        == "StepError"          \* an action failed on a live context

NoData   == <<0, "">>
NilImage == [Data |-> NoData, DOM |-> -1]          \* the nil *ChromeBrowserImage
NewImage == [Data |-> NoData, DOM |-> 0]           \* r := &ChromeBrowserImage{}
NoRet    == [returned |-> FALSE, image |-> NilImage, err |-> NilErr]

\* The options a ChromeBrowser is made with, as far as buildTasks and Image
\* read them: the sizes of HeadersMap and JsCode (empty, or not), Delay and
\* Timeout in seconds, and the two flags.
ChromeBrowserOptions ==
    [HeadersMap : {0, MaxHeaders}, JsCode : {0, MaxJsLen}, Delay : {0, MaxDelay},
     Timeout : 0..MaxTimeout, AsPDF : BOOLEAN, FullPage : BOOLEAN]

NoOptions ==
    [HeadersMap |-> 0, JsCode |-> 0, Delay |-> 0, Timeout |-> 0,
     AsPDF |-> FALSE, FullPage |-> FALSE]

\* ------------------------------------------------- the HTTP handler's values
\* imageProcessorOptions of cmd/root.go, with the defaults of its envGet
\* calls: the ImageProcessorOptions the process runs with by default.
imageProcessorOptions ==
    [Width |-> 1920, Height |-> 1280, Timeout |-> 10, Delay |-> 3,
     UserAgent |-> "appName", AsPDF |-> FALSE]

\* The ImageProcessorOptions a process may be configured with through the
\* IMAGE_* environment: every option set (with short times), and every
\* numeric and string option unset with IMAGE_AS_PDF set.
Configs ==
    {[Width |-> 1024, Height |-> 768, Timeout |-> MaxTimeout, Delay |-> MaxDelay,
      UserAgent |-> "appName", AsPDF |-> FALSE],
     [Width |-> 0, Height |-> 0, Timeout |-> 0, Delay |-> 0,
      UserAgent |-> "", AsPDF |-> TRUE]}

\* The kind field of a request: absent, the engine's name, another name.
Kinds == {"", "chrome", "firefox"}

\* The form of an HTTP request.  bad: "form" when r.ParseForm() fails on
\* it, "field" when a field does not decode into ImageProcessorRequest,
\* "none" otherwise.  A numeric field that is absent is 0, a string field
\* that is absent is "".
Forms ==
    [bad : {"none", "form", "field"},
     url : {"http://example.com/", ":"},
     kind : Kinds,
     width : {0, 800}, height : {0, 600}, userAgent : {"", "curl"},
     timeout : {0, 1}, delay : {0, 1},
     asPDF : {"", "false", "true"},
     headers : {0, MaxHeaders}]

NoForm ==
    [bad |-> "none", url |-> "", kind |-> "", width |-> 0, height |-> 0,
     userAgent |-> "", timeout |-> 0, delay |-> 0, asPDF |-> "", headers |-> 0]

\* decoder.Decode(&request, r.Form), line 130: the ImageProcessorRequest of
\* a form that decodes.  An absent field leaves the zero value of its type.
Decode(form) ==
    [URL |-> form.url, Kind |-> form.kind, Width |-> form.width,
     Height |-> form.height, UserAgent |-> form.userAgent,
     Timeout |-> form.timeout, Delay |-> form.delay,
     AsPDF |-> (form.asPDF = "true"), Headers |-> form.headers]

\* browser.ChromeBrowserOptions{} with no field set.
NoChromeOptions ==
    [Width |-> 0, Height |-> 0, UserAgent |-> "", Timeout |-> 0, Delay |-> 0,
     FullPage |-> FALSE, AsPDF |-> FALSE, HeadersMap |-> 0]

\* The http.ResponseWriter before anything is written to it.
NoResponse == [status |-> 0, body |-> <<>>]

\* A HandleHttpRequest call: where it stands, the form it got, the engine
\* it chose, the options chromeImage built, the response, the error it
\* returned, and how often it incremented the two counters.
NoHttp ==
    [pc |-> "idle", form |-> NoForm, engine |-> "", options |-> NoChromeOptions,
     w |-> NoResponse, err |-> NilErr, requests |-> 0, errors |-> 0]

VARIABLES
    pc,            \* pc[c]: where the main line of call c stands
    options,       \* options[c]: the ChromeBrowser's options
    actx,          \* actx[c]: "none", "live" or the context's Err()
    browserCtx,    \* browserCtx[c]: likewise
    tabs,          \* tabs[c]: the tab contexts, [status, remaining]
    listeners,     \* listeners[c]: the <<scope, kind>> registered by ListenTarget
    defers,        \* defers[c]: the stack of deferred cancel functions
    launchErr,     \* launchErr[c]: err of chromedp.Run(browserCtx), line 128
    runs,          \* runs[c]: the chromedp.Run calls on tab contexts, in order
    idx,           \* idx[c]: the action of the running pipeline being executed
    err,           \* err[c]: Image's err, lines 198 and 219
    r,             \* r[c]: the *ChromeBrowserImage being filled
    ret,           \* ret[c]: what Image returned
    dialogs,       \* dialogs[c]: dialog-accept goroutines in flight
    cancelCalled,  \* cancelCalled[c]: the <<scope, caller>> cancel calls made
    leaked,        \* scopes still live when their call's state was collected
    http,          \* http[c]: the HandleHttpRequest call that made call c
    config,        \* p.options: the ImageProcessorOptions of the process
    logged         \* logged[c]: the c.logger.Debug calls of call c's listeners

httpVars == <<http, config>>

\* All but the log.
coreVars == <<pc, options, actx, browserCtx, tabs, listeners, defers, launchErr,
              runs, idx, err, r, ret, dialogs, cancelCalled, leaked, http, config>>

vars == <<coreVars, logged>>

\* ---------------------------------------------------------------- buildTasks
\* buildTasks(url, doNavigate, buf, dom): the chromedp.Tasks, each action by
\* the name of the chromedp/cdproto call that makes it.  ChromeProcessor's
\* buildTasks (processor/image.go) is the same text.

\* Faulty variant of HeaderTasks: the len(HeadersMap) > 0 test is missing.
HeaderTasksAlways(o) == <<"network.Enable", "network.SetExtraHTTPHeaders">>

\* Lines 51-53.
HeaderTasks(o) ==
    IF o.HeadersMap > 0 THEN <<"network.Enable", "network.SetExtraHTTPHeaders">>
    ELSE <<>>

\* Faulty variant of NavigateTasks: Delay >= 0 in place of Delay > 0.
NavigateTasksSleepAlways(o, doNavigate) ==
    IF doNavigate
    THEN <<"Navigate">>
         \o (IF o.JsCode > 0 THEN <<"Evaluate">> ELSE <<>>)
         \o (IF o.Delay >= 0 THEN <<"Sleep">> ELSE <<>>)
         \o <<"Stop">>
    ELSE <<>>

\* Lines 55-64.
NavigateTasks(o, doNavigate) ==
    IF doNavigate
    THEN <<"Navigate">>
         \o (IF o.JsCode > 0 THEN <<"Evaluate">> ELSE <<>>)
         \o (IF o.Delay > 0 THEN <<"Sleep">> ELSE <<>>)
         \o <<"Stop">>
    ELSE <<>>

\* Faulty variant of CaptureTasks: the `return actions` of the PDF branch
\* (line 79) is missing, so the screenshot action is appended as well.
CaptureTasksFallThrough(o) ==
    (IF o.AsPDF THEN <<"PrintToPDF">> ELSE <<>>)
    \o (IF o.FullPage THEN <<"FullScreenshot">> ELSE <<"CaptureScreenshot">>)

\* Lines 69-87.
CaptureTasks(o) ==
    IF o.AsPDF THEN <<"PrintToPDF">>
    ELSE IF o.FullPage THEN <<"FullScreenshot">>
    ELSE <<"CaptureScreenshot">>

\* Faulty variant of buildTasks: the header actions are appended inside the
\* `if doNavigate` block.
buildTasksHeadersOnNavigate(o, doNavigate) ==
    (IF doNavigate THEN HeaderTasks(o) ELSE <<>>)
    \o NavigateTasks(o, doNavigate) \o <<"OuterHTML">> \o CaptureTasks(o)

\* Lines 48-90: the actions appended in order, from options and doNavigate
\* alone.
buildTasks(o, doNavigate) ==
    HeaderTasks(o) \o NavigateTasks(o, doNavigate) \o <<"OuterHTML">> \o CaptureTasks(o)

\* ------------------------------------------------------------------ contexts
\* Faulty variant of CanceledIfLive: a cancel function overwrites the Err()
\* of a context that is done already.
CanceledAlways(st) == Canceled

\* Faulty variant of CanceledIfLive: a cancel function is not to be called
\* twice, as close() on a channel.
CanceledOnce(st) ==
    IF st = "live" THEN Canceled
    ELSE IF st = Canceled THEN "closed twice" ELSE st

\* The Err() of a context after a call of its cancel function: the first
\* of cancellation and deadline sets it.
CanceledIfLive(st) == IF st = "live" THEN Canceled ELSE st

\* context.WithTimeout(parent, timeout): a child of a done parent is done at
\* once with the parent's Canceled; a timeout that is not positive expires
\* at once.
WithTimeout(parent, timeout) ==
    IF parent # "live" THEN [status |-> Canceled, remaining |-> timeout]
    ELSE IF timeout <= 0 THEN [status |-> DeadlineExceeded, remaining |-> 0]
    ELSE [status |-> "live", remaining |-> timeout]

\* Faulty variant of Descendants: the tab contexts are made from
\* context.Background() instead of browserCtx.
DescendantsDetached(s, n) == IF s = Actx THEN {Actx, BrowserCtx} ELSE {s}

\* The scopes done when scope s is cancelled, n tab contexts being open:
\* browserCtx is chromedp.NewContext(actx), every tab context is
\* context.WithTimeout(browserCtx, ...).
Descendants(s, n) ==
    IF s = Actx THEN {Actx, BrowserCtx} \cup (1..n)
    ELSE IF s = BrowserCtx THEN {BrowserCtx} \cup (1..n)
    ELSE {s}

CancelTabs(ts, D) ==
    [i \in 1..Len(ts) |->
        IF i \in D THEN [ts[i] EXCEPT !.status = CanceledIfLive(@)] ELSE ts[i]]

\* The scopes of call c: the contexts, and the scopes whose cancel function
\* has been called.
Scopes(c) ==
    [actx |-> actx[c], browserCtx |-> browserCtx[c], tabs |-> tabs[c],
     called |-> cancelCalled[c]]

\* The scopes after a call of the cancel function of scope s, made by `by`
\* ("crash": a crash listener, "dialog": the dialog goroutine, "return":
\* line 227, "defer": a deferred call): s and its descendants are done; a
\* context that is done already keeps its Err().
CancelScope(sc, s, by) ==
    LET D == Descendants(s, Len(sc.tabs)) IN
    [actx |-> IF Actx \in D THEN CanceledIfLive(sc.actx) ELSE sc.actx,
     browserCtx |-> IF BrowserCtx \in D THEN CanceledIfLive(sc.browserCtx)
                    ELSE sc.browserCtx,
     tabs |-> CancelTabs(sc.tabs, D),
     called |-> sc.called \cup {<<s, by>>}]

SetScopes(c, sc) ==
    /\ actx' = [actx EXCEPT ![c] = sc.actx]
    /\ browserCtx' = [browserCtx EXCEPT ![c] = sc.browserCtx]
    /\ tabs' = [tabs EXCEPT ![c] = sc.tabs]
    /\ cancelCalled' = [cancelCalled EXCEPT ![c] = sc.called]

\* Faulty variant of Session: one allocator and browser context, made once,
\* serve every call of the process.
SessionShared(c) == 1

\* The call whose contexts the cancel functions of call c act on: Image
\* makes its own allocator, browser and tab contexts at each call, lines
\* 113-125.
Session(c) == c

\* A call of the cancel function of scope s of call c.
Cancel(c, s, by) ==
    SetScopes(Session(c), CancelScope(Scopes(Session(c)), s, by))

\* The deferred cancel functions run last in, first out, as Image returns.
\* A cancel function only ends contexts that are live, with Canceled, so the
\* scopes after all of them have run are those of CancelScope applied once
\* per deferred function, in whichever order: every scope below a deferred
\* one is done.
RunDefers(sc, stack) ==
    LET D == UNION {Descendants(stack[i], Len(sc.tabs)) : i \in 1..Len(stack)} IN
    [actx |-> IF Actx \in D THEN CanceledIfLive(sc.actx) ELSE sc.actx,
     browserCtx |-> IF BrowserCtx \in D THEN CanceledIfLive(sc.browserCtx)
                    ELSE sc.browserCtx,
     tabs |-> CancelTabs(sc.tabs, D),
     called |-> sc.called \cup {<<stack[i], "defer">> : i \in 1..Len(stack)}]

\* Faulty variant of TickTimer: the context has no deadline, as one made by
\* context.WithCancel.
TickTimerNoDeadline(t) == t

\* One second passes on a tab context's timer.
TickTimer(t) ==
    IF t.status # "live" THEN t
    ELSE IF t.remaining <= 1 THEN [status |-> DeadlineExceeded, remaining |-> 0]
    ELSE [t EXCEPT !.remaining = @ - 1]

\* ------------------------------------------------------------------- helpers
Idle(c) == pc[c] = "idle"

CurRun(c) == runs[c][Len(runs[c])]
CurTask(c) == CurRun(c).tasks[idx[c]]
CurStatus(c) == tabs[c][CurRun(c).ctx].status

IsCapture(task) == task \in {"PrintToPDF", "FullScreenshot", "CaptureScreenshot"}

\* Faulty variant of IsDeadlineExceeded: err != nil.
IsAnyError(e) == e # NilErr

\* errors.Is(err, context.DeadlineExceeded), line 200
IsDeadlineExceeded(e) == e = DeadlineExceeded

\* Faulty variant of LaunchFailed: the error of the launch is dropped.
LaunchErrIgnored(e) == FALSE

\* err != nil after chromedp.Run(browserCtx), line 128
LaunchFailed(e) == e # NilErr

\* Faulty variant of FallbackNavigate: the fallback navigates again.
FallbackNavigateAgain == TRUE

\* doNavigate of the fallback pipeline, line 219
FallbackNavigate == FALSE

\* Faulty variant of AfterFallback: the deadline test is made again after
\* the fallback run, as in a retry loop.
AfterFallbackRetry == "after_primary"

\* Where the main line goes when the fallback run has returned: line 222.
AfterFallback == "check_err"

\* Faulty variant of InitialDefers: only cancelTabCtx is deferred.
InitialDefersTabOnly == <<TabCtx>>

\* The cancel functions deferred before the launch, in the order of their
\* defer statements: acancel, cancelBrowserCtx, cancelTabCtx.
InitialDefers == <<Actx, BrowserCtx, TabCtx>>

\* Faulty variant of CrashCancels: every crash listener calls
\* cancelBrowserCtx.
CrashCancelsBrowser(s) == BrowserCtx

\* The scope whose cancel function the crash listener registered on scope
\* s calls: cancelBrowserCtx, cancelTabCtx, cancelNewTabCtx.
CrashCancels(s) == s

\* Faulty variant of ErrAfterRun: `err :=` at line 219 shadows err, which
\* keeps the primary run's error.
ErrAfterRunShadowed(at, old, e) == IF at = "fallback" THEN old ELSE e

\* err after a run returned e: `err :=` at line 198, `err =` at line 219.
ErrAfterRun(at, old, e) == e


\* Faulty variant of FallbackTimeout: the fallback context is given what is
\* left of the primary deadline.
FallbackTimeoutLeftOver(c) == tabs[c][TabCtx].remaining

\* The timeout of newTabCtx, in seconds: c.options.Timeout, line 208.
FallbackTimeout(c) == options[c].Timeout

\* Faulty variant of FallbackParent: a new allocator and browser context
\* are made for the fallback.
FallbackParentFresh(c) == "live"

\* The parent context newTabCtx is derived from: browserCtx, line 208.
FallbackParent(c) == browserCtx[c]

\* Faulty variant of ReturnedOnError: `return r, err`.
ReturnedOnErrorPartial(img) == img

\* The image Image returns with an error, r being img: nil, lines 129, 223.
ReturnedOnError(img) == NilImage

\* Faulty variant of FallbackListeners: the four listeners of tabCtx are
\* registered on newTabCtx as well.
FallbackListenersAll(n) ==
    {<<n, "crash">>, <<n, "dialog">>, <<n, "console">>, <<n, "network">>}

\* The chromedp.ListenTarget calls on the fallback tab context n: the crash
\* listener, lines 212-216.
FallbackListeners(n) == {<<n, "crash">>}

\* ---------------------------------------------------------------------- Init
InitCalls ==
    /\ pc = [c \in Calls |-> "idle"]
    /\ options = [c \in Calls |-> NoOptions]
    /\ actx = [c \in Calls |-> "none"]
    /\ browserCtx = [c \in Calls |-> "none"]
    /\ tabs = [c \in Calls |-> <<>>]
    /\ listeners = [c \in Calls |-> {}]
    /\ defers = [c \in Calls |-> <<>>]
    /\ launchErr = [c \in Calls |-> "unset"]
    /\ runs = [c \in Calls |-> <<>>]
    /\ idx = [c \in Calls |-> 0]
    /\ err = [c \in Calls |-> "unset"]
    /\ r = [c \in Calls |-> NilImage]
    /\ ret = [c \in Calls |-> NoRet]
    /\ dialogs = [c \in Calls |-> 0]
    /\ cancelCalled = [c \in Calls |-> {}]
    /\ leaked = 0
    /\ http = [c \in Calls |-> NoHttp]
    /\ logged = [c \in Calls |-> 0]

\* The process runs with the options cmd/root.go gives it by default.
Init ==
    /\ InitCalls
    /\ config = imageProcessorOptions

\* ------------------------------------------------------- the main line: Image
\* browser.NewChromeBrowser(options, ...), as chromeImage calls it for one
\* request.  Under Spec a call starts when no other call is in progress,
\* in the first call slot.
NewBrowser(c, o) ==
    /\ Idle(c)
    /\ options' = [options EXCEPT ![c] = o]
    /\ pc' = [pc EXCEPT ![c] = "new"]
    /\ UNCHANGED <<actx, browserCtx, tabs, listeners, defers, launchErr, runs,
                   idx, err, r, ret, dialogs, cancelCalled, leaked>>

NewChromeBrowser(c) ==
    /\ \A d \in Calls : Idle(d) /\ c <= d
    /\ \E o \in ChromeBrowserOptions : NewBrowser(c, o)
    /\ UNCHANGED <<httpVars, logged>>

\* Image, lines 95-125: r, the allocator, browserCtx and tabCtx with its
\* deadline, each with its deferred cancel.
ImageBegin(c) ==
    /\ pc[c] = "new"
    /\ r' = [r EXCEPT ![c] = NewImage]
    /\ actx' = [actx EXCEPT ![c] = "live"]
    /\ browserCtx' = [browserCtx EXCEPT ![c] = "live"]
    /\ tabs' = [tabs EXCEPT ![c] = <<WithTimeout("live", options[c].Timeout)>>]
    /\ defers' = [defers EXCEPT ![c] = InitialDefers]
    /\ pc' = [pc EXCEPT ![c] = "launch"]
    /\ UNCHANGED <<options, listeners, launchErr, runs, idx, err, ret, dialogs,
                   cancelCalled, leaked>>
    /\ UNCHANGED <<httpVars, logged>>

\* chromedp.Run(browserCtx) returns, line 128.
LaunchReturns(c) ==
    /\ pc[c] = "launch"
    /\ \E e \in {NilErr, LaunchError} : launchErr' = [launchErr EXCEPT ![c] = e]
    /\ pc' = [pc EXCEPT ![c] = "check_launch"]
    /\ UNCHANGED <<options, actx, browserCtx, tabs, listeners, defers, runs, idx,
                   err, r, ret, dialogs, cancelCalled, leaked>>
    /\ UNCHANGED <<httpVars, logged>>

\* return nil, err, line 129, and the deferred cancels.
ReturnLaunchErr(c) ==
    /\ pc[c] = "check_launch"
    /\ LaunchFailed(launchErr[c])
    /\ ret' = [ret EXCEPT ![c] =
                  [returned |-> TRUE, image |-> ReturnedOnError(r[c]),
                   err |-> launchErr[c]]]
    /\ SetScopes(Session(c), RunDefers(Scopes(Session(c)), defers[c]))
    /\ defers' = [defers EXCEPT ![c] = <<>>]
    /\ pc' = [pc EXCEPT ![c] = "returned"]
    /\ UNCHANGED <<options, listeners, launchErr, runs, idx, err, r, dialogs,
                   leaked>>
    /\ UNCHANGED <<httpVars, logged>>

\* The five chromedp.ListenTarget calls, lines 133-195.
AttachListeners(c) ==
    /\ pc[c] = "check_launch"
    /\ ~LaunchFailed(launchErr[c])
    /\ listeners' = [listeners EXCEPT ![c] =
                        {<<BrowserCtx, "crash">>, <<TabCtx, "crash">>,
                         <<TabCtx, "dialog">>, <<TabCtx, "console">>,
                         <<TabCtx, "network">>}]
    /\ pc' = [pc EXCEPT ![c] = "run_primary"]
    /\ UNCHANGED <<options, actx, browserCtx, tabs, defers, launchErr, runs, idx,
                   err, r, ret, dialogs, cancelCalled, leaked>>
    /\ UNCHANGED <<httpVars, logged>>

\* chromedp.Run(tabCtx, c.buildTasks(url, true, ...)) is called, line 198.
RunPrimary(c) ==
    /\ pc[c] = "run_primary"
    /\ runs' = [runs EXCEPT ![c] =
                   <<[ctx |-> TabCtx, navigate |-> TRUE,
                      tasks |-> buildTasks(options[c], TRUE), err |-> "running"]>>]
    /\ idx' = [idx EXCEPT ![c] = 1]
    /\ pc' = [pc EXCEPT ![c] = "primary"]
    /\ UNCHANGED <<options, actx, browserCtx, tabs, listeners, defers, launchErr,
                   err, r, ret, dialogs, cancelCalled, leaked>>
    /\ UNCHANGED <<httpVars, logged>>

\* The running chromedp.Run returns e to Image.
RunReturns(c, e) ==
    /\ runs' = [runs EXCEPT ![c][Len(runs[c])].err = e]
    /\ err' = [err EXCEPT ![c] = ErrAfterRun(pc[c], @, e)]
    /\ idx' = [idx EXCEPT ![c] = 0]
    /\ pc' = [pc EXCEPT ![c] = IF @ = "primary" THEN "after_primary" ELSE AfterFallback]

Running(c) == pc[c] \in {"primary", "fallback"}

\* What an action that completed wrote through dom and buf.
Written(img, task, ctx) ==
    IF task = "OuterHTML" THEN [img EXCEPT !.DOM = ctx]
    ELSE IF IsCapture(task) THEN [img EXCEPT !.Data = <<ctx, task>>]
    ELSE img

\* What an action that returned an error left in buf: PrintToPDF assigns
\* *buf with the error, lines 73-76.
Spoiled(img, task) ==
    IF task = "PrintToPDF" THEN [img EXCEPT !.Data = NoData] ELSE img

\* The action in progress completes; after the last one Run returns nil.
StepOk(c) ==
    /\ Running(c)
    /\ CurStatus(c) = "live"
    /\ r' = [r EXCEPT ![c] = Written(@, CurTask(c), CurRun(c).ctx)]
    /\ IF idx[c] = Len(CurRun(c).tasks)
       THEN RunReturns(c, NilErr)
       ELSE /\ idx' = [idx EXCEPT ![c] = @ + 1]
            /\ UNCHANGED <<runs, err, pc>>
    /\ UNCHANGED <<options, actx, browserCtx, tabs, listeners, defers, launchErr,
                   ret, dialogs, cancelCalled, leaked>>
    /\ UNCHANGED <<httpVars, logged>>

\* The action in progress fails on a live context (navigation, script,
\* capture): Run returns its error.
StepFail(c) ==
    /\ Running(c)
    /\ CurStatus(c) = "live"
    /\ r' = [r EXCEPT ![c] = Spoiled(@, CurTask(c))]
    /\ RunReturns(c, StepError)
    /\ UNCHANGED <<options, actx, browserCtx, tabs, listeners, defers, launchErr,
                   ret, dialogs, cancelCalled, leaked>>
    /\ UNCHANGED <<httpVars, logged>>

\* The context of the run is done: the action in progress returns ctx.Err().
StepAbort(c) ==
    /\ Running(c)
    /\ CurStatus(c) # "live"
    /\ r' = [r EXCEPT ![c] = Spoiled(@, CurTask(c))]
    /\ RunReturns(c, CurStatus(c))
    /\ UNCHANGED <<options, actx, browserCtx, tabs, listeners, defers, launchErr,
                   ret, dialogs, cancelCalled, leaked>>
    /\ UNCHANGED <<httpVars, logged>>

\* Lines 200-219: on deadline exceeded a new tab context with a fresh
\* deadline, its deferred cancel, its crash listener, and the run of the
\* pipeline built without navigation.
OpenFallback(c) ==
    /\ pc[c] = "after_primary"
    /\ IsDeadlineExceeded(err[c])
    /\ LET n == Len(tabs[c]) + 1 IN
       /\ tabs' = [tabs EXCEPT ![c] =
                      Append(@, WithTimeout(FallbackParent(c), FallbackTimeout(c)))]
       /\ defers' = [defers EXCEPT ![c] = Append(@, n)]
       /\ listeners' = [listeners EXCEPT ![c] = @ \cup FallbackListeners(n)]
       /\ runs' = [runs EXCEPT ![c] =
                      Append(@, [ctx |-> n, navigate |-> FallbackNavigate,
                                 tasks |-> buildTasks(options[c], FallbackNavigate),
                                 err |-> "running"])]
    /\ idx' = [idx EXCEPT ![c] = 1]
    /\ pc' = [pc EXCEPT ![c] = "fallback"]
    /\ UNCHANGED <<options, actx, browserCtx, launchErr, err, r, ret, dialogs,
                   cancelCalled, leaked>>
    /\ UNCHANGED <<httpVars, logged>>

\* Line 222 is reached: from line 200 when err is not deadline exceeded,
\* or from the end of the if block.
AtCheckErr(c) ==
    \/ pc[c] = "check_err"
    \/ pc[c] = "after_primary" /\ ~IsDeadlineExceeded(err[c])

\* return nil, err, lines 222-224, and the deferred cancels.
ReturnErr(c) ==
    /\ AtCheckErr(c)
    /\ err[c] # NilErr
    /\ ret' = [ret EXCEPT ![c] =
                  [returned |-> TRUE, image |-> ReturnedOnError(r[c]),
                   err |-> err[c]]]
    /\ SetScopes(Session(c), RunDefers(Scopes(Session(c)), defers[c]))
    /\ defers' = [defers EXCEPT ![c] = <<>>]
    /\ pc' = [pc EXCEPT ![c] = "returned"]
    /\ UNCHANGED <<options, listeners, launchErr, runs, idx, err, r, dialogs,
                   leaked>>
    /\ UNCHANGED <<httpVars, logged>>

\* cancelTabCtx(); return r, nil, lines 227-228, and the deferred cancels.
ReturnOk(c) ==
    /\ AtCheckErr(c)
    /\ err[c] = NilErr
    /\ ret' = [ret EXCEPT ![c] =
                  [returned |-> TRUE, image |-> r[c], err |-> NilErr]]
    /\ SetScopes(Session(c),
                 RunDefers(CancelScope(Scopes(Session(c)), TabCtx, "return"),
                           defers[c]))
    /\ defers' = [defers EXCEPT ![c] = <<>>]
    /\ pc' = [pc EXCEPT ![c] = "returned"]
    /\ UNCHANGED <<options, listeners, launchErr, runs, idx, err, r, dialogs,
                   leaked>>
    /\ UNCHANGED <<httpVars, logged>>

\* The scopes of call c that are not done.
LiveScopes(c) ==
    {s \in {Actx} : actx[c] = "live"}
    \cup {s \in {BrowserCtx} : browserCtx[c] = "live"}
    \cup {i \in 1..Len(tabs[c]) : tabs[c][i].status = "live"}

\* The caller has the result and drops the ChromeBrowser; the slot is free
\* for the next call.  Whatever was still live stays live for good.
Release(c) ==
    /\ pc[c] = "returned"
    /\ dialogs[c] = 0
    /\ leaked' = IF leaked + Cardinality(LiveScopes(c)) > MaxLeaked
                 THEN MaxLeaked ELSE leaked + Cardinality(LiveScopes(c))
    /\ pc' = [pc EXCEPT ![c] = "idle"]
    /\ options' = [options EXCEPT ![c] = NoOptions]
    /\ actx' = [actx EXCEPT ![c] = "none"]
    /\ browserCtx' = [browserCtx EXCEPT ![c] = "none"]
    /\ tabs' = [tabs EXCEPT ![c] = <<>>]
    /\ listeners' = [listeners EXCEPT ![c] = {}]
    /\ defers' = [defers EXCEPT ![c] = <<>>]
    /\ launchErr' = [launchErr EXCEPT ![c] = "unset"]
    /\ runs' = [runs EXCEPT ![c] = <<>>]
    /\ idx' = [idx EXCEPT ![c] = 0]
    /\ err' = [err EXCEPT ![c] = "unset"]
    /\ r' = [r EXCEPT ![c] = NilImage]
    /\ ret' = [ret EXCEPT ![c] = NoRet]
    /\ cancelCalled' = [cancelCalled EXCEPT ![c] = {}]
    /\ logged' = [logged EXCEPT ![c] = 0]
    /\ UNCHANGED dialogs

\* Under Spec the caller of Image is left open: the result is taken as soon
\* as Image has returned.
Collect(c) ==
    /\ Release(c)
    /\ UNCHANGED httpVars

\* ------------------------------------------------- listeners and the timers
\* A listener receives events until the context it was registered with is
\* done.
\* inspector.EventTargetCrashed reaches the crash listener registered on
\* scope s: it calls that scope's cancel function (lines 133-143, 212-216).
TargetCrashed(c, s) ==
    /\ <<s, "crash">> \in listeners[c]
    /\ s \in LiveScopes(c)
    /\ Cancel(c, CrashCancels(s), "crash")
    /\ UNCHANGED <<pc, options, listeners, defers, launchErr, runs, idx, err, r,
                   ret, dialogs, leaked>>
    /\ UNCHANGED <<httpVars, logged>>

\* page.EventJavascriptDialogOpening reaches the dialog listener: it starts
\* a goroutine that runs page.HandleJavaScriptDialog on tabCtx (lines 146-149).
JavascriptDialogOpening(c) ==
    /\ \E s \in LiveScopes(c) : <<s, "dialog">> \in listeners[c]
    /\ dialogs[c] < MaxDialogs
    /\ dialogs' = [dialogs EXCEPT ![c] = @ + 1]
    /\ UNCHANGED <<pc, options, actx, browserCtx, tabs, listeners, defers,
                   launchErr, runs, idx, err, r, ret, cancelCalled, leaked>>
    /\ UNCHANGED <<httpVars, logged>>

\* The goroutine's chromedp.Run(tabCtx, HandleJavaScriptDialog) returns nil.
DialogAccepted(c) ==
    /\ dialogs[c] > 0
    /\ tabs[c][TabCtx].status = "live"
    /\ dialogs' = [dialogs EXCEPT ![c] = @ - 1]
    /\ UNCHANGED <<pc, options, actx, browserCtx, tabs, listeners, defers,
                   launchErr, runs, idx, err, r, ret, cancelCalled, leaked>>
    /\ UNCHANGED <<httpVars, logged>>

\* Faulty variant of DialogCancels: the goroutine calls cancelBrowserCtx.
DialogCancelsBrowser == BrowserCtx

\* The scope whose cancel function the dialog goroutine calls when its run
\* returned an error: cancelTabCtx, line 152.
DialogCancels == TabCtx

\* It returns an error (the call failed, or tabCtx is done): cancelTabCtx(),
\* lines 151-153.
DialogAcceptFailed(c) ==
    /\ dialogs[c] > 0
    /\ Cancel(c, DialogCancels, "dialog")
    /\ dialogs' = [dialogs EXCEPT ![c] = @ - 1]
    /\ UNCHANGED <<pc, options, listeners, defers, launchErr, runs, idx, err, r,
                   ret, leaked>>
    /\ UNCHANGED <<httpVars, logged>>

\* The events the console and network listeners have a case for, lines
\* 159-195.
DiagnosticEvents ==
    {"runtime.EventConsoleAPICalled", "runtime.EventExceptionThrown",
     "network.EventRequestWillBeSent", "network.EventResponseReceived",
     "network.EventLoadingFailed", "network.EventWebSocketCreated",
     "network.EventWebSocketHandshakeResponseReceived",
     "network.EventWebSocketFrameError"}

\* The listener kind that has a case for event ev.
ListenerOf(ev) ==
    IF ev \in {"runtime.EventConsoleAPICalled", "runtime.EventExceptionThrown"}
    THEN "console" ELSE "network"

\* The cases that call c.logger.Debug, lines 164, 181, 184, 187.
Logs(ev) ==
    ev \in {"runtime.EventConsoleAPICalled", "network.EventRequestWillBeSent",
            "network.EventResponseReceived", "network.EventLoadingFailed"}

\* Faulty variant of DiagnosticCancels: the case of an exception thrown in
\* the page calls cancelTabCtx.
DiagnosticCancelsOnException(ev) ==
    IF ev = "runtime.EventExceptionThrown" THEN {TabCtx} ELSE {}

\* The scopes whose cancel function the case of event ev calls: none.
DiagnosticCancels(ev) == {}

\* Event ev reaches the console or the network listener of tabCtx, lines
\* 159-195: its case runs.  The count of Debug calls stops at MaxLogged.
DiagnosticEvent(c, ev) ==
    /\ <<TabCtx, ListenerOf(ev)>> \in listeners[c]
    /\ TabCtx \in LiveScopes(c)
    /\ logged' = [logged EXCEPT ![c] =
                     IF Logs(ev) /\ @ < MaxLogged THEN @ + 1 ELSE @]
    /\ IF DiagnosticCancels(ev) = {}
       THEN UNCHANGED <<actx, browserCtx, tabs, cancelCalled>>
       ELSE \E s \in DiagnosticCancels(ev) : Cancel(c, s, "diagnostic")
    /\ UNCHANGED <<pc, options, listeners, defers, launchErr, runs, idx, err, r,
                   ret, dialogs, leaked, httpVars>>

\* One second passes: every live deadline timer runs down, and a timer that
\* reaches its deadline ends its context with DeadlineExceeded.
Tick ==
    /\ \E c \in Calls : \E i \in 1..Len(tabs[c]) : tabs[c][i].status = "live"
    /\ tabs' = [c \in Calls |-> [i \in 1..Len(tabs[c]) |-> TickTimer(tabs[c][i])]]
    /\ UNCHANGED <<pc, options, actx, browserCtx, listeners, defers, launchErr,
                   runs, idx, err, r, ret, dialogs, cancelCalled, leaked>>
    /\ UNCHANGED <<httpVars, logged>>

\* ------------------------------------ ImageProcessor: the HTTP handler's side
\* Faulty variant of OrDefault: the request's value is taken as it is.
OrDefaultNever(v, d) == v

\* `x := r.X; if x == 0 { x = p.options.X }`, lines 57-80.
OrDefault(v, d) == IF v = 0 THEN d ELSE v

\* utils.IsEmpty(userAgent), line 68.
IsEmpty(str) == str = ""

\* The browser.ChromeBrowserOptions chromeImage builds for request req in a
\* process configured with cfg, lines 57-92.
ChromeImageOptions(req, cfg) ==
    [Width |-> OrDefault(req.Width, cfg.Width),
     Height |-> OrDefault(req.Height, cfg.Height),
     UserAgent |-> IF IsEmpty(req.UserAgent) THEN cfg.UserAgent ELSE req.UserAgent,
     Timeout |-> OrDefault(req.Timeout, cfg.Timeout),
     Delay |-> OrDefault(req.Delay, cfg.Delay),
     FullPage |-> TRUE,
     AsPDF |-> req.AsPDF,
     HeadersMap |-> req.Headers]

\* What buildTasks and Image read of the options chromeImage built; JsCode
\* is not set by chromeImage.
AsBrowserOptions(o) ==
    [HeadersMap |-> o.HeadersMap, JsCode |-> 0, Delay |-> o.Delay,
     Timeout |-> o.Timeout, AsPDF |-> o.AsPDF, FullPage |-> o.FullPage]

\* url.Parse(r.URL), line 95.
UrlParseError(u) == IF u = ":" THEN "UrlError" ELSE NilErr

\* Faulty variant of SelectEngine: `case "chrome":` in place of `default:`.
SelectEngineByName(kind) ==
    IF kind \in {"", "chrome"} THEN "chrome" ELSE "none"

\* The case of `switch browser` that runs, lines 137-147: kind, or "chrome"
\* when kind is empty, always falls to the default case, which is chrome's.
SelectEngine(kind) == "chrome"

\* w.WriteHeader(code): the status is set by the first call only.
WriteHeader(w, code) == IF w.status # 0 THEN w ELSE [w EXCEPT !.status = code]

\* w.Write(data): the first write sends the header with status 200; the
\* data goes to the body unless the write fails.
Write(w, data, ok) ==
    LET h == WriteHeader(w, 200) IN
    IF ok THEN [h EXCEPT !.body = Append(@, data)] ELSE h

\* http.Error(w, msg, code): WriteHeader(code), and msg as the body.
HttpError(w, msg, code) ==
    [WriteHeader(w, code) EXCEPT !.body = Append(@, msg)]

\* An error path of HandleHttpRequest: errs.Inc(), http.Error with the
\* message made of what and e, return e.
Fail(h, what, e) ==
    [h EXCEPT !.pc = "done", !.errors = @ + 1, !.err = e,
              !.w = HttpError(@, <<what, e>>, 500)]

\* Lines 149-160, data and e being what the switch left in data and err.
Respond(h, data, e, writeOk) ==
    IF e # NilErr THEN Fail(h, "could not make image", e)
    ELSE IF writeOk THEN [h EXCEPT !.pc = "done", !.w = Write(@, data, TRUE)]
    ELSE Fail([h EXCEPT !.w = Write(@, data, FALSE)],
              "could not write response", "WriteError")

\* HandleHttpRequest is called with a request, lines 110-146, and
\* chromeImage up to its call of Image, lines 57-100.  One request is
\* handled at a time, in the first call slot.
HandleHttpRequest(c) ==
    /\ \A d \in Calls : Idle(d) /\ http[d].pc = "idle" /\ c <= d
    /\ \E form \in Forms : \E writeOk \in BOOLEAN :
          LET h == [NoHttp EXCEPT !.form = form, !.requests = 1]
              req == Decode(form)
              he == [h EXCEPT !.engine = SelectEngine(req.Kind)]
              ho == [he EXCEPT !.options = ChromeImageOptions(req, config)]
          IN
          IF form.bad = "form"
          THEN /\ http' = [http EXCEPT ![c] = Fail(h, "could not parse form", "FormError")]
               /\ UNCHANGED <<pc, options>>
          ELSE IF form.bad = "field"
          THEN /\ http' = [http EXCEPT ![c] = Fail(h, "could not decode form", "DecodeError")]
               /\ UNCHANGED <<pc, options>>
          ELSE IF he.engine # "chrome"
          THEN /\ http' = [http EXCEPT ![c] = Respond(he, NoData, NilErr, writeOk)]
               /\ UNCHANGED <<pc, options>>
          ELSE IF UrlParseError(req.URL) # NilErr
          THEN /\ http' = [http EXCEPT ![c] =
                              Respond(ho, NoData, UrlParseError(req.URL), writeOk)]
               /\ UNCHANGED <<pc, options>>
          ELSE /\ http' = [http EXCEPT ![c] = [ho EXCEPT !.pc = "render"]]
               /\ options' = [options EXCEPT ![c] = AsBrowserOptions(ho.options)]
               /\ pc' = [pc EXCEPT ![c] = "new"]
    /\ UNCHANGED <<actx, browserCtx, tabs, listeners, defers, launchErr, runs,
                   idx, err, r, ret, dialogs, cancelCalled, leaked, config, logged>>

\* Image has returned to chromeImage, lines 100-105, and chromeImage to
\* HandleHttpRequest, lines 149-160.
HandleHttpRequestReturns(c) ==
    /\ http[c].pc = "render"
    /\ pc[c] = "returned"
    /\ \E writeOk \in BOOLEAN :
          http' = [http EXCEPT ![c] =
                      Respond(@, IF ret[c].err = NilErr THEN ret[c].image.Data
                                 ELSE NoData,
                              ret[c].err, writeOk)]
    /\ UNCHANGED <<pc, options, actx, browserCtx, tabs, listeners, defers,
                   launchErr, runs, idx, err, r, ret, dialogs, cancelCalled,
                   leaked, config, logged>>

\* The handler has returned; its request, and the ChromeBrowser it made if
\* any, are dropped.
HttpCollect(c) ==
    /\ http[c].pc = "done"
    /\ IF Idle(c)
       THEN UNCHANGED <<pc, options, actx, browserCtx, tabs, listeners, defers,
                        launchErr, runs, idx, err, r, ret, dialogs,
                        cancelCalled, leaked, logged>>
       ELSE Release(c)
    /\ http' = [http EXCEPT ![c] = NoHttp]
    /\ UNCHANGED config

\* ---------------------------------------------------------------------- Spec
Next ==
    \/ \E c \in Calls : NewChromeBrowser(c)
    \/ \E c \in Calls : ImageBegin(c)
    \/ \E c \in Calls : LaunchReturns(c)
    \/ \E c \in Calls : ReturnLaunchErr(c)
    \/ \E c \in Calls : AttachListeners(c)
    \/ \E c \in Calls : RunPrimary(c)
    \/ \E c \in Calls : StepOk(c)
    \/ \E c \in Calls : StepFail(c)
    \/ \E c \in Calls : StepAbort(c)
    \/ \E c \in Calls : OpenFallback(c)
    \/ \E c \in Calls : ReturnErr(c)
    \/ \E c \in Calls : ReturnOk(c)
    \/ \E c \in Calls : Collect(c)
    \/ \E c \in Calls : \E s \in BrowserCtx..Len(tabs[c]) : TargetCrashed(c, s)
    \/ \E c \in Calls : JavascriptDialogOpening(c)
    \/ \E c \in Calls : DialogAccepted(c)
    \/ \E c \in Calls : DialogAcceptFailed(c)
    \/ Tick

Spec == Init /\ [][Next]_vars

\* The calls that run at the same time under ConcSpec, and the options
\* they are made with: a full-page screenshot with a timeout of one second.
ConcCalls == {c \in Calls : c <= 2}

ConcOptions ==
    {o \in ChromeBrowserOptions :
        /\ o.HeadersMap = 0 /\ o.JsCode = 0 /\ o.Delay = 0
        /\ o.FullPage /\ ~o.AsPDF /\ o.Timeout = 1}

\* browser.NewChromeBrowser(options, ...) for a call made while another
\* may be in progress: each request of the HTTP server runs chromeImage in
\* its own goroutine.
ConcurrentCall(c) ==
    /\ c \in ConcCalls
    /\ \E o \in ConcOptions : NewBrowser(c, o)
    /\ UNCHANGED <<httpVars, logged>>

\* Under ConcSpec the page of a call opens a dialog when none of its
\* dialogs is waiting to be accepted.
ConcDialogOpening(c) ==
    /\ dialogs[c] = 0
    /\ JavascriptDialogOpening(c)

\* A step of call c: of its main line, or of one of its listeners.
CallStep(c) ==
    \/ ConcurrentCall(c)
    \/ ImageBegin(c)
    \/ LaunchReturns(c)
    \/ ReturnLaunchErr(c)
    \/ AttachListeners(c)
    \/ RunPrimary(c)
    \/ StepOk(c)
    \/ StepFail(c)
    \/ StepAbort(c)
    \/ OpenFallback(c)
    \/ ReturnErr(c)
    \/ ReturnOk(c)
    \/ Collect(c)
    \/ \E s \in BrowserCtx..Len(tabs[c]) : TargetCrashed(c, s)
    \/ JavascriptDialogOpening(c)
    \/ DialogAccepted(c)
    \/ DialogAcceptFailed(c)

\* Calls in progress at the same time.
ConcNext ==
    \/ \E c \in Calls : ConcurrentCall(c)
    \/ \E c \in Calls : ImageBegin(c)
    \/ \E c \in Calls : LaunchReturns(c)
    \/ \E c \in Calls : ReturnLaunchErr(c)
    \/ \E c \in Calls : AttachListeners(c)
    \/ \E c \in Calls : RunPrimary(c)
    \/ \E c \in Calls : StepOk(c)
    \/ \E c \in Calls : StepFail(c)
    \/ \E c \in Calls : StepAbort(c)
    \/ \E c \in Calls : OpenFallback(c)
    \/ \E c \in Calls : ReturnErr(c)
    \/ \E c \in Calls : ReturnOk(c)
    \/ \E c \in Calls : Collect(c)
    \/ \E c \in Calls : \E s \in BrowserCtx..Len(tabs[c]) : TargetCrashed(c, s)
    \/ \E c \in Calls : ConcDialogOpening(c)
    \/ \E c \in Calls : DialogAccepted(c)
    \/ \E c \in Calls : DialogAcceptFailed(c)
    \/ Tick

ConcSpec == Init /\ [][ConcNext]_vars

\* Spec with the events of the console and network listeners delivered.
DiagNext ==
    \/ Next
    \/ \E c \in Calls : \E ev \in DiagnosticEvents : DiagnosticEvent(c, ev)

DiagSpec == Init /\ [][DiagNext]_vars

\* The process as a server: every Image call is made by chromeImage for a
\* request HandleHttpRequest got, in a process configured one way or other.
HttpInit ==
    /\ InitCalls
    /\ config \in Configs

HttpNext ==
    \/ \E c \in Calls : HandleHttpRequest(c)
    \/ \E c \in Calls : ImageBegin(c)
    \/ \E c \in Calls : LaunchReturns(c)
    \/ \E c \in Calls : ReturnLaunchErr(c)
    \/ \E c \in Calls : AttachListeners(c)
    \/ \E c \in Calls : RunPrimary(c)
    \/ \E c \in Calls : StepOk(c)
    \/ \E c \in Calls : StepFail(c)
    \/ \E c \in Calls : StepAbort(c)
    \/ \E c \in Calls : OpenFallback(c)
    \/ \E c \in Calls : ReturnErr(c)
    \/ \E c \in Calls : ReturnOk(c)
    \/ \E c \in Calls : \E s \in BrowserCtx..Len(tabs[c]) : TargetCrashed(c, s)
    \/ \E c \in Calls : JavascriptDialogOpening(c)
    \/ \E c \in Calls : DialogAccepted(c)
    \/ \E c \in Calls : DialogAcceptFailed(c)
    \/ Tick
    \/ \E c \in Calls : HandleHttpRequestReturns(c)
    \/ \E c \in Calls : HttpCollect(c)

HttpSpec == HttpInit /\ [][HttpNext]_vars

\* The steps of the main line of Image that wait for nothing: the
\* statements between the calls of chromedp.Run, and the return of a run
\* whose context is done.
MainStep(c) ==
    \/ ReturnLaunchErr(c)
    \/ AttachListeners(c)
    \/ RunPrimary(c)
    \/ StepAbort(c)
    \/ OpenFallback(c)
    \/ ReturnErr(c)
    \/ ReturnOk(c)

\* Spec with the scheduling the Go runtime gives: the goroutine of Image
\* goes on whenever it can, and time passes.  Nothing is assumed of the
\* page: an action on a live context may never complete, and the launch of
\* the browser (which has no deadline) may never return.
LiveSpec ==
    /\ Spec
    /\ WF_vars(Tick)
    /\ \A c \in Calls : WF_vars(MainStep(c))

\* ==================================================================== claims
Range(seq) == {seq[i] : i \in 1..Len(seq)}

Returned(c) == pc[c] = "returned"

\* The primary run of call c has returned e.
PrimaryEnded(c, e) == Len(runs[c]) >= 1 /\ runs[c][1].err = e

\* The fallback run of call c has returned e.
FallbackEnded(c, e) == Len(runs[c]) >= 2 /\ runs[c][2].err = e

\* The scopes of call c whose cancel function has been called.
CalledScopes(c) == {p[1] : p \in cancelCalled[c]}

\* The tab context a fresh context.WithTimeout(browserCtx, Timeout) is.
FreshTab(c) ==
    IF browserCtx[c] # "live" THEN Canceled
    ELSE IF options[c].Timeout > 0 THEN "live" ELSE DeadlineExceeded

\* C1: whenever the primary run (navigate=true) ends with deadline exceeded,
\* the next step of Image opens one fallback attempt: a second tab context,
\* fresh, derived from the same browser context (which the step leaves as
\* it is), with the pipeline built without navigation run on it; Image does
\* not reach line 222 or return without it; and if the fallback run returns
\* nil, Image returns the image the fallback wrote and no error.
C1_FallbackAfterDeadline ==
    /\ [](\A c \in Calls :
            PrimaryEnded(c, DeadlineExceeded) /\ pc[c] # "after_primary" =>
                /\ pc[c] \in {"fallback", "check_err", "returned"}
                /\ Len(runs[c]) = 2 /\ Len(tabs[c]) = 2
                /\ runs[c][1].ctx = TabCtx /\ runs[c][1].navigate
                /\ runs[c][2].ctx = NewTabCtx /\ ~runs[c][2].navigate
                /\ Range(runs[c][2].tasks)
                     \cap {"Navigate", "Evaluate", "Sleep", "Stop"} = {}
                /\ Returned(c) /\ FallbackEnded(c, NilErr) =>
                      /\ ret[c].returned /\ ret[c].err = NilErr
                      /\ ret[c].image # NilImage
                      /\ ret[c].image.Data[1] = NewTabCtx
                      /\ ret[c].image.DOM = NewTabCtx)
    /\ [][\A c \in Calls :
            pc[c] = "after_primary" /\ PrimaryEnded(c, DeadlineExceeded)
            /\ pc'[c] # pc[c] =>
                /\ pc'[c] = "fallback"
                /\ Len(tabs'[c]) = 2 /\ Len(runs'[c]) = 2
                /\ tabs'[c][TabCtx] = tabs[c][TabCtx]
                /\ tabs'[c][NewTabCtx].status = FreshTab(c)
                /\ browserCtx'[c] = browserCtx[c] /\ actx'[c] = actx[c]]_vars

C1_Witness ==
    \E c \in Calls :
        /\ Returned(c)
        /\ PrimaryEnded(c, DeadlineExceeded)
        /\ FallbackEnded(c, NilErr)
        /\ ret[c].err = NilErr /\ ret[c].image.Data[1] = NewTabCtx

\* C2: a render call opens at most two attempts, one primary and at most
\* one fallback: there are never more than two tab contexts or two runs, and
\* a fallback run that itself ends with deadline exceeded leads to line 222
\* and the return, not to another attempt.
C2_AtMostTwoAttempts ==
    \A c \in Calls :
        /\ Len(tabs[c]) <= 2
        /\ Len(runs[c]) <= 2
        /\ FallbackEnded(c, DeadlineExceeded) =>
              /\ pc[c] \in {"check_err", "returned"}
              /\ Returned(c) => ret[c].err = DeadlineExceeded

C2_Witness ==
    \E c \in Calls :
        /\ Returned(c)
        /\ PrimaryEnded(c, DeadlineExceeded)
        /\ FallbackEnded(c, DeadlineExceeded)
        /\ Len(tabs[c]) = 2

\* C3: a fallback attempt is opened if and only if the primary run ended
\* with deadline exceeded.  A primary run that returned nil is followed by
\* no fallback and the return of the image the primary run wrote; a primary
\* run that ended with any other error (a failed action, or the cancellation
\* of its context) is followed by no fallback and the return of that error.
C3_FallbackIffDeadline ==
    \A c \in Calls :
        /\ Len(tabs[c]) >= 2 => PrimaryEnded(c, DeadlineExceeded)
        /\ Returned(c) /\ PrimaryEnded(c, DeadlineExceeded) => Len(tabs[c]) = 2
        /\ Returned(c) /\ PrimaryEnded(c, NilErr) =>
              /\ Len(tabs[c]) = 1 /\ Len(runs[c]) = 1
              /\ ret[c].err = NilErr
              /\ ret[c].image = r[c]
              /\ ret[c].image.Data[1] = TabCtx /\ ret[c].image.DOM = TabCtx
        /\ \A e \in {Canceled, StepError} :
              Returned(c) /\ PrimaryEnded(c, e) =>
                  /\ Len(tabs[c]) = 1 /\ Len(runs[c]) = 1
                  /\ ret[c].err = e
                  /\ ret[c].image = NilImage

C3_Witness ==
    \E c \in Calls :
        /\ Returned(c)
        /\ PrimaryEnded(c, Canceled)
        /\ <<TabCtx, "crash">> \in cancelCalled[c]
        /\ Len(tabs[c]) = 1
        /\ ret[c].err = Canceled

\* C4: when the fallback run fails, Image returns no image and the error
\* the fallback run returned, whatever it is, in place of the primary run's
\* deadline exceeded.
C4_FallbackErrorReturned ==
    \A c \in Calls :
        Returned(c) /\ Len(runs[c]) = 2 /\ runs[c][2].err # NilErr =>
            /\ ret[c].returned
            /\ ret[c].err = runs[c][2].err
            /\ ret[c].image = NilImage

C4_Witness ==
    \E c \in Calls :
        /\ Returned(c)
        /\ PrimaryEnded(c, DeadlineExceeded)
        /\ FallbackEnded(c, StepError)
        /\ ret[c].err = StepError

\* C5: when Image has returned, on whichever path, no scope of the call is
\* live and the cancel function of the allocator, of the browser context and
\* of every tab context opened has been called; so no collected call has
\* left a live scope behind, however many calls ran one after another.
C5_AllScopesReleased ==
    /\ leaked = 0
    /\ \A c \in Calls :
          Returned(c) =>
              /\ LiveScopes(c) = {}
              /\ actx[c] # "none" /\ browserCtx[c] # "none" /\ Len(tabs[c]) >= 1
              /\ ({Actx, BrowserCtx} \cup (1..Len(tabs[c]))) \subseteq CalledScopes(c)
              /\ defers[c] = <<>>

C5_Witness ==
    \E c \in Calls :
        /\ Returned(c)
        /\ Len(tabs[c]) = 2
        /\ FallbackEnded(c, NilErr)
        /\ LiveScopes(c) = {}
        /\ <<NewTabCtx, "defer">> \in cancelCalled[c]

\* C6: every tab context is a descendant of its call's browser context.
\* Once the browser context is done no tab context is live, one opened
\* afterwards included; the browser context is never cancelled unless its
\* own or the allocator's cancel function was called, so neither the
\* cancellation nor the deadline of a tab context cancels it; and a tab
\* context is never cancelled unless its own cancel function, or the
\* browser's or allocator's, was called, so cancelling one tab context does
\* not cancel the other.
C6_AttemptsUnderBrowser ==
    \A c \in Calls :
        /\ browserCtx[c] \notin {"none", "live"} =>
              \A i \in 1..Len(tabs[c]) : tabs[c][i].status # "live"
        /\ browserCtx[c] = Canceled =>
              CalledScopes(c) \cap {Actx, BrowserCtx} # {}
        /\ \A i \in 1..Len(tabs[c]) :
              tabs[c][i].status = Canceled =>
                  CalledScopes(c) \cap {Actx, BrowserCtx, i} # {}

C6_Witness ==
    \E c \in Calls :
        /\ pc[c] = "fallback"
        /\ browserCtx[c] = Canceled
        /\ tabs[c][TabCtx].status = DeadlineExceeded
        /\ tabs[c][NewTabCtx].status = Canceled
        /\ CalledScopes(c) = {BrowserCtx}

\* C7: a crash event received by the listener of a tab context cancels
\* that tab context and leaves the allocator, the browser context and the
\* other tab context as they were; a crash event received by the listener of
\* the browser context cancels the browser context and with it every tab
\* context.  A run whose context is done ends with that context's error:
\* the attempt is terminated.
C7_CrashIsScoped ==
    [][\A c \in Calls :
          /\ \A s \in BrowserCtx..NewTabCtx :
                TargetCrashed(c, s) =>
                    IF s = BrowserCtx
                    THEN /\ browserCtx'[c] = Canceled
                         /\ \A i \in 1..Len(tabs'[c]) : tabs'[c][i].status # "live"
                    ELSE /\ tabs'[c][s].status = Canceled
                         /\ browserCtx'[c] = browserCtx[c]
                         /\ actx'[c] = actx[c]
                         /\ \A i \in 1..Len(tabs[c]) :
                               i # s => tabs'[c][i] = tabs[c][i]
          /\ Running(c) /\ CurStatus(c) # "live"
             /\ (pc'[c] # pc[c] \/ idx'[c] # idx[c]) =>
                    /\ pc'[c] \notin {"primary", "fallback"}
                    /\ runs'[c][Len(runs[c])].err = CurStatus(c)]_vars

C7_Witness ==
    \E c \in Calls :
        /\ pc[c] = "after_primary"
        /\ cancelCalled[c] = {<<TabCtx, "crash">>}
        /\ tabs[c][TabCtx].status = Canceled
        /\ browserCtx[c] = "live" /\ actx[c] = "live"
        /\ PrimaryEnded(c, Canceled)

\* C8: when chromedp.Run(browserCtx) has failed, Image returns no image
\* and that error: no listener is registered, no run on a tab context is
\* started, nothing is written to the image, and the launch is not run
\* again.
C8_LaunchFailureIsFatal ==
    \A c \in Calls :
        launchErr[c] = LaunchError =>
            /\ pc[c] \in {"check_launch", "returned"}
            /\ listeners[c] = {}
            /\ runs[c] = <<>> /\ idx[c] = 0 /\ err[c] = "unset"
            /\ r[c] = NewImage
            /\ dialogs[c] = 0
            /\ Returned(c) =>
                  ret[c] = [returned |-> TRUE, image |-> NilImage,
                            err |-> LaunchError]

C8_Witness ==
    \E c \in Calls :
        /\ Returned(c)
        /\ launchErr[c] = LaunchError
        /\ ret[c].err = LaunchError
        /\ listeners[c] = {}

HeaderSteps == {"network.Enable", "network.SetExtraHTTPHeaders"}

NavigateSteps == {"Navigate", "Evaluate", "Sleep", "Stop"}

\* How often x occurs in the pipeline t, and where it first does.
Count(t, x) == Cardinality({i \in 1..Len(t) : t[i] = x})

Pos(t, x) == CHOOSE i \in 1..Len(t) : t[i] = x /\ \A j \in 1..(i - 1) : t[j] # x

\* C9: in every pipeline Image runs, with and without navigation,
\* network.Enable and network.SetExtraHTTPHeaders are the first two actions,
\* in this order, and occur nowhere else, when HeadersMap is not empty; when
\* it is empty neither occurs in the pipeline.
C9_HeaderSteps ==
    \A c \in Calls : \A k \in 1..Len(runs[c]) :
        LET t == runs[c][k].tasks IN
        IF options[c].HeadersMap > 0
        THEN /\ Len(t) > 2
             /\ t[1] = "network.Enable"
             /\ t[2] = "network.SetExtraHTTPHeaders"
             /\ \A i \in 3..Len(t) : t[i] \notin HeaderSteps
        ELSE Range(t) \cap HeaderSteps = {}

C9_Witness ==
    \E c \in Calls :
        /\ Len(runs[c]) = 2
        /\ options[c].HeadersMap > 0
        /\ runs[c][1].navigate /\ ~runs[c][2].navigate
        /\ SubSeq(runs[c][1].tasks, 1, 2) = SubSeq(runs[c][2].tasks, 1, 2)
        /\ runs[c][2].tasks[1] = "network.Enable"

\* C10: a pipeline built with navigation holds, right after the header
\* actions, Navigate, then Evaluate exactly when JsCode is not empty, then
\* Sleep exactly when Delay > 0, then Stop, each once and next to each
\* other; a pipeline built without navigation holds none of the four.
C10_NavigateBlock ==
    \A c \in Calls : \A k \in 1..Len(runs[c]) :
        LET t == runs[c][k].tasks
            o == options[c]
            h == IF o.HeadersMap > 0 THEN 2 ELSE 0
            js == IF o.JsCode > 0 THEN 1 ELSE 0
            dl == IF o.Delay > 0 THEN 1 ELSE 0
        IN
        IF runs[c][k].navigate
        THEN /\ Count(t, "Navigate") = 1 /\ Pos(t, "Navigate") = h + 1
             /\ Count(t, "Evaluate") = js
             /\ js = 1 => Pos(t, "Evaluate") = h + 2
             /\ Count(t, "Sleep") = dl
             /\ dl = 1 => Pos(t, "Sleep") = h + 2 + js
             /\ Count(t, "Stop") = 1 /\ Pos(t, "Stop") = h + 2 + js + dl
        ELSE Range(t) \cap NavigateSteps = {}

C10_Witness ==
    \E c \in Calls :
        /\ Len(runs[c]) = 2
        /\ options[c].JsCode > 0 /\ options[c].Delay > 0
        /\ NavigateSteps \subseteq Range(runs[c][1].tasks)
        /\ Range(runs[c][2].tasks) \cap NavigateSteps = {}

\* C11: every pipeline Image runs ends with OuterHTML followed by one
\* capture action, the only OuterHTML and the only capture action of the
\* pipeline: PrintToPDF when AsPDF is set, whatever FullPage is; otherwise
\* FullScreenshot when FullPage is set; otherwise CaptureScreenshot.
C11_CapturePrecedence ==
    \A c \in Calls : \A k \in 1..Len(runs[c]) :
        LET t == runs[c][k].tasks
            o == options[c]
            n == Len(t)
        IN
        /\ n >= 2
        /\ t[n - 1] = "OuterHTML"
        /\ {i \in 1..n : t[i] = "OuterHTML"} = {n - 1}
        /\ {i \in 1..n : IsCapture(t[i])} = {n}
        /\ t[n] = IF o.AsPDF THEN "PrintToPDF"
                  ELSE IF o.FullPage THEN "FullScreenshot"
                  ELSE "CaptureScreenshot"

C11_Witness ==
    \E c \in Calls :
        /\ Len(runs[c]) = 2
        /\ options[c].AsPDF /\ options[c].FullPage
        /\ \A k \in 1..2 :
              LET t == runs[c][k].tasks IN
              SubSeq(t, Len(t) - 1, Len(t)) = <<"OuterHTML", "PrintToPDF">>

\* C12: the step that opens the fallback attempt gives its tab context a
\* timer of the full Timeout, whatever is left on the primary's timer (which
\* is zero); every second that passes while the fallback context is live
\* runs that timer down by one, the context ends with deadline exceeded when
\* the timer reaches zero, and a run on a context that is done makes no
\* further step but its return: the fallback run lasts at most Timeout
\* seconds more.
C12_FreshFallbackDeadline ==
    /\ [](\A c \in Calls :
            Len(tabs[c]) = 2 =>
                /\ tabs[c][TabCtx].status = DeadlineExceeded
                /\ tabs[c][TabCtx].remaining = 0
                /\ tabs[c][NewTabCtx].remaining <= options[c].Timeout
                /\ tabs[c][NewTabCtx].status = "live" =>
                      tabs[c][NewTabCtx].remaining >= 1)
    /\ [][\A c \in Calls :
            /\ pc[c] = "after_primary" /\ pc'[c] = "fallback" =>
                  /\ tabs'[c][NewTabCtx].remaining = options[c].Timeout
                  /\ browserCtx[c] = "live" /\ options[c].Timeout > 0 =>
                        tabs'[c][NewTabCtx].status = "live"
            /\ Len(tabs[c]) = 2 /\ tabs[c][NewTabCtx].status = "live" /\ Tick =>
                  IF tabs[c][NewTabCtx].remaining = 1
                  THEN tabs'[c][NewTabCtx].status = DeadlineExceeded
                  ELSE /\ tabs'[c][NewTabCtx].status = "live"
                       /\ tabs'[c][NewTabCtx].remaining
                            = tabs[c][NewTabCtx].remaining - 1
            /\ pc[c] = "fallback" /\ tabs[c][NewTabCtx].status # "live"
               /\ (pc'[c] # pc[c] \/ idx'[c] # idx[c]) =>
                  /\ pc'[c] = "check_err"
                  /\ r'[c].DOM = r[c].DOM
                  /\ runs'[c][2].err = tabs[c][NewTabCtx].status]_vars

C12_Witness ==
    \E c \in Calls :
        /\ pc[c] = "fallback"
        /\ options[c].Timeout = MaxTimeout
        /\ tabs[c][TabCtx] = [status |-> DeadlineExceeded, remaining |-> 0]
        /\ tabs[c][NewTabCtx] = [status |-> "live", remaining |-> MaxTimeout]

\* C13: under LiveSpec, a call whose launch has returned without error
\* eventually returns, with an image and no error or with an error and no
\* image, whatever the page and the listeners do meanwhile.
C13_CallReturns ==
    \A c \in Calls :
        (pc[c] = "check_launch" /\ launchErr[c] = NilErr)
            ~> (/\ Returned(c)
                /\ ret[c].returned
                /\ (ret[c].err = NilErr) # (ret[c].image = NilImage))

C13_Witness ==
    \E c \in Calls :
        /\ Returned(c)
        /\ launchErr[c] = NilErr
        /\ dialogs[c] > 0
        /\ PrimaryEnded(c, DeadlineExceeded)
        /\ FallbackEnded(c, DeadlineExceeded)
        /\ ret[c].err = DeadlineExceeded /\ ret[c].image = NilImage

\* The handler of call c has returned.
Handled(c) == http[c].pc = "done"

\* The request of call c, as decoded.
Request(c) == Decode(http[c].form)

\* C14: a request HandleHttpRequest has handled, if it ended in an error
\* (of the form, of its decoding, of the render, or of writing the
\* response), has the status 500 and the error message in its response,
\* one increment of the error counter, and the error as the handler's
\* return value; if it succeeded, it has the rendered bytes and nothing else
\* as its response body, one increment of the request counter and none of
\* the error counter.
C14_ErrorsAnswered500 ==
    \A c \in Calls :
        Handled(c) =>
            IF http[c].err # NilErr
            THEN /\ http[c].w.status = 500
                 /\ \E i \in 1..Len(http[c].w.body) :
                       /\ Len(http[c].w.body[i]) = 2
                       /\ http[c].w.body[i][2] = http[c].err
                 /\ http[c].errors = 1
            ELSE /\ http[c].w.status = 200
                 /\ http[c].w.body = <<ret[c].image.Data>>
                 /\ http[c].requests = 1
                 /\ http[c].errors = 0

\* chromeImage has built the options of call c.
OptionsBuilt(c) == http[c].pc \in {"render", "done"} /\ http[c].form.bad = "none"

\* C15: in the options chromeImage builds, each of Width, Height, Timeout
\* and Delay is the request's value when that is not zero and the configured
\* default when it is, UserAgent is the request's when that is not empty and
\* the configured one when it is; so a value is zero only when the request
\* left it out and the configured default is zero.  Timeout and Delay reach
\* the ChromeBrowser that renders as built.
C15_DefaultsFillMissing ==
    \A c \in Calls :
        OptionsBuilt(c) =>
            LET req == Request(c)
                o == http[c].options
            IN
            /\ o.Width = (IF req.Width # 0 THEN req.Width ELSE config.Width)
            /\ o.Height = (IF req.Height # 0 THEN req.Height ELSE config.Height)
            /\ o.Timeout = (IF req.Timeout # 0 THEN req.Timeout ELSE config.Timeout)
            /\ o.Delay = (IF req.Delay # 0 THEN req.Delay ELSE config.Delay)
            /\ o.UserAgent = (IF req.UserAgent # "" THEN req.UserAgent
                              ELSE config.UserAgent)
            /\ o.Width = 0 => config.Width = 0
            /\ o.Height = 0 => config.Height = 0
            /\ o.Timeout = 0 => config.Timeout = 0
            /\ o.Delay = 0 => config.Delay = 0
            /\ http[c].pc = "render" =>
                  /\ options[c].Timeout = o.Timeout
                  /\ options[c].Delay = o.Delay

C15_Witness ==
    \E c \in Calls :
        /\ http[c].pc = "render" /\ pc[c] = "launch"
        /\ Request(c).Width = 800 /\ Request(c).Height = 0
        /\ Request(c).Timeout = 0 /\ Request(c).Delay = 1
        /\ config.Height = 768
        /\ http[c].options.Width = 800 /\ http[c].options.Height = 768
        /\ http[c].options.Delay = 1
        /\ tabs[c][TabCtx].remaining = config.Timeout /\ config.Timeout > 0

\* C16: for a request that leaves out asPDF, the options chromeImage builds
\* and renders with have the configured AsPDF, and a process configured
\* with AsPDF set runs the PDF pipeline for it.
C16_OmittedAsPDFUsesDefault ==
    \A c \in Calls :
        http[c].pc = "render" /\ http[c].form.asPDF = "" =>
            /\ http[c].options.AsPDF = config.AsPDF
            /\ options[c].AsPDF = config.AsPDF
            /\ \A k \in 1..Len(runs[c]) :
                  config.AsPDF =>
                      runs[c][k].tasks[Len(runs[c][k].tasks)] = "PrintToPDF"

\* C19: whatever the kind field of a request that decodes, the engine that
\* runs is chrome's: chromeImage is called, and Image unless the URL does
\* not parse.  An error the handler answers with is then an error of the
\* URL, of Image, or of writing the response, none of which kind is read
\* for.
C19_AnyKindIsChrome ==
    \A c \in Calls :
        http[c].pc # "idle" /\ http[c].form.bad = "none" =>
            /\ Request(c).Kind \in Kinds
            /\ http[c].engine = "chrome"
            /\ UrlParseError(Request(c).URL) = NilErr => pc[c] # "idle"
            /\ Handled(c) =>
                  \/ http[c].err = NilErr
                  \/ /\ http[c].err = "UrlError"
                     /\ Request(c).URL = ":" /\ Idle(c)
                  \/ /\ http[c].err = "WriteError"
                     /\ Idle(c) \/ ret[c].err = NilErr
                  \/ /\ Returned(c)
                     /\ http[c].err = ret[c].err
                     /\ ret[c].err \in {LaunchError, StepError, Canceled,
                                        DeadlineExceeded}

C19_Witness ==
    \E c \in Calls :
        /\ Handled(c) /\ Returned(c)
        /\ Request(c).Kind = "firefox"
        /\ http[c].engine = "chrome"
        /\ http[c].err = NilErr /\ http[c].w.status = 200
        /\ http[c].w.body = <<ret[c].image.Data>>
        /\ ret[c].image.Data[1] = TabCtx

\* C20: at the moment the launch of the browser returns without error, the
\* primary tab context has its whole Timeout left: no time has run off its
\* timer while the browser was launching, and it has not expired.
C20_LaunchTimeNotCounted ==
    [][\A c \in Calls :
          /\ pc[c] = "launch" /\ pc'[c] = "check_launch"
          /\ launchErr'[c] = NilErr /\ options[c].Timeout > 0
          => /\ tabs'[c][TabCtx].status = "live"
             /\ tabs'[c][TabCtx].remaining = options[c].Timeout]_vars

\* C18: with the console, exception, network and WebSocket events
\* delivered, every step either leaves all but the log as it is, or is a
\* step Image takes without them: an execution with such events goes through
\* the states, cancels the scopes and returns the result of the execution
\* without them, and an event delivered changes nothing but the log.
C18_DiagnosticsOnlyLog ==
    /\ [][Next]_coreVars
    /\ [][\A c \in Calls :
            logged'[c] > logged[c] =>
                /\ coreVars' = coreVars
                /\ \A d \in Calls \ {c} : logged'[d] = logged[d]]_vars

C18_Witness ==
    \E c \in Calls :
        /\ logged[c] = MaxLogged
        /\ Returned(c)
        /\ PrimaryEnded(c, NilErr)
        /\ ret[c].err = NilErr /\ ret[c].image.Data[1] = TabCtx

\* All that belongs to call c.
View(c) ==
    <<pc[c], options[c], actx[c], browserCtx[c], tabs[c], listeners[c],
      defers[c], launchErr[c], runs[c], idx[c], err[c], r[c], ret[c],
      dialogs[c], cancelCalled[c], logged[c], http[c]>>

\* The main line of call c can take its next step.
CanStep(c) ==
    /\ Idle(c) => ENABLED ConcurrentCall(c)
    /\ pc[c] = "new" => ENABLED ImageBegin(c)
    /\ pc[c] = "launch" => ENABLED LaunchReturns(c)
    /\ pc[c] = "check_launch" => ENABLED (ReturnLaunchErr(c) \/ AttachListeners(c))
    /\ pc[c] = "run_primary" => ENABLED RunPrimary(c)
    /\ Running(c) => ENABLED (StepOk(c) \/ StepAbort(c))
    /\ pc[c] \in {"after_primary", "check_err"} =>
          ENABLED (OpenFallback(c) \/ ReturnErr(c) \/ ReturnOk(c))

\* C17: with two calls in progress at the same time, each has its own
\* allocator, browser and tab contexts: whatever changes in a call (a scope
\* cancelled, a run ended, a result returned) is changed by a step of that
\* call or, for its timers, by time passing, never by a step of the other
\* call; time runs each timer down by itself; and whatever the other call is
\* doing, the main line of a call can take its next step.
C17_CallsIndependent ==
    /\ [](\A c \in ConcCalls : CanStep(c))
    /\ [][IF Tick
          THEN \A c \in Calls :
                  /\ pc'[c] = pc[c] /\ ret'[c] = ret[c]
                  /\ actx'[c] = actx[c] /\ browserCtx'[c] = browserCtx[c]
                  /\ \A i \in 1..Len(tabs[c]) :
                        tabs'[c][i] = TickTimer(tabs[c][i])
          ELSE \A c \in Calls :
                  View(c)' # View(c) =>
                      /\ CallStep(c)
                      /\ \A d \in Calls \ {c} : View(d)' = View(d)]_vars

C17_Witness ==
    \E c, d \in ConcCalls :
        /\ c # d
        /\ pc[c] = "primary"
        /\ browserCtx[c] = Canceled
        /\ <<BrowserCtx, "crash">> \in cancelCalled[c]
        /\ pc[d] = "fallback"
        /\ browserCtx[d] = "live"
        /\ tabs[d][TabCtx].status = DeadlineExceeded
        /\ tabs[d][NewTabCtx].status = "live"

\* The main line of call c, its listeners attached, can take its next step.
MainCanStep(c) ==
    /\ pc[c] = "run_primary" => ENABLED RunPrimary(c)
    /\ Running(c) => ENABLED (StepOk(c) \/ StepAbort(c))
    /\ pc[c] \in {"after_primary", "check_err"} =>
          ENABLED (OpenFallback(c) \/ ReturnErr(c) \/ ReturnOk(c))

\* What the main line of call c holds: where it stands, its runs, its
\* error, the image and what it returned.
MainLine(c) == <<pc[c], runs[c], idx[c], err[c], r[c], ret[c], defers[c]>>

\* C21: a dialog event only starts the accept goroutine: the step changes
\* nothing of the main line or of the scopes, and while accept goroutines
\* are in flight the main line can take its next step.  A failed accept
\* cancels tabCtx if it is live and changes nothing else: the allocator,
\* the browser context and the fallback tab context stay as they are, and
\* neither err nor the returned value is written by it.  What Image returns
\* after such a cancellation is an error of a run or of a context, Canceled
\* when the primary run ended on the cancelled tabCtx.
C21_DialogDetached ==
    /\ [](\A c \in Calls : dialogs[c] > 0 => MainCanStep(c))
    /\ [](\A c \in Calls :
            /\ Returned(c) =>
                  ret[c].err \in {NilErr, LaunchError, StepError, Canceled,
                                  DeadlineExceeded}
            /\ Returned(c) /\ PrimaryEnded(c, Canceled)
               /\ CalledScopes(c) \cap {Actx, BrowserCtx} = {}
               /\ <<TabCtx, "crash">> \notin cancelCalled[c] =>
                  /\ <<TabCtx, "dialog">> \in cancelCalled[c]
                  /\ ret[c].err = Canceled /\ ret[c].image = NilImage)
    /\ [][\A c \in Calls :
            /\ dialogs'[c] > dialogs[c] =>
                  /\ <<TabCtx, "dialog">> \in listeners[c]
                  /\ MainLine(c)' = MainLine(c)
                  /\ Scopes(c)' = Scopes(c)
            /\ DialogAcceptFailed(c) =>
                  /\ tabs'[c][TabCtx].status = CanceledIfLive(tabs[c][TabCtx].status)
                  /\ \A i \in 1..Len(tabs[c]) : i # TabCtx => tabs'[c][i] = tabs[c][i]
                  /\ Len(tabs'[c]) = Len(tabs[c])
                  /\ browserCtx'[c] = browserCtx[c]
                  /\ actx'[c] = actx[c]
                  /\ cancelCalled'[c] = cancelCalled[c] \cup {<<TabCtx, "dialog">>}
                  /\ MainLine(c)' = MainLine(c)]_vars

C21_Witness ==
    \E c \in Calls :
        /\ Returned(c)
        /\ cancelCalled[c] \cap {<<TabCtx, "dialog">>, <<TabCtx, "crash">>,
                                 <<BrowserCtx, "crash">>}
              = {<<TabCtx, "dialog">>}
        /\ PrimaryEnded(c, Canceled)
        /\ Len(tabs[c]) = 1
        /\ ret[c].err = Canceled /\ ret[c].image = NilImage

\* The dialog goroutine of call c has called cancelTabCtx.
DialogFailed(c) == <<TabCtx, "dialog">> \in cancelCalled[c]

\* C22: under LiveSpec, with a failing accept goroutine and the deadline of
\* tabCtx racing, tabCtx is done as soon as either has acted and keeps the
\* Err() the first of them gave it: a timer cannot expire a cancelled
\* context and cancelTabCtx cannot change an expired one.  The primary run
\* on the done context makes no step but its return with that Err(), so
\* the deadline winning leads to the fallback and the cancellation winning
\* to the return of Canceled; and a call in its primary run with an accept
\* goroutine in flight eventually returns.
C22_DialogDeadlineRace ==
    /\ [](\A c \in Calls :
            DialogFailed(c) =>
                /\ tabs[c][TabCtx].status \in {Canceled, DeadlineExceeded}
                /\ pc[c] \notin {"primary", "run_primary"} =>
                      /\ PrimaryEnded(c, tabs[c][TabCtx].status)
                         \/ PrimaryEnded(c, NilErr) \/ PrimaryEnded(c, StepError)
                      /\ PrimaryEnded(c, Canceled) => Len(tabs[c]) = 1
                      /\ PrimaryEnded(c, DeadlineExceeded) =>
                            tabs[c][TabCtx].status = DeadlineExceeded)
    /\ [][\A c \in Calls :
            /\ Len(tabs[c]) >= 1 /\ tabs[c][TabCtx].status # "live"
               /\ Len(tabs'[c]) >= 1 =>
                  tabs'[c][TabCtx] = tabs[c][TabCtx]
            /\ pc[c] = "primary" /\ tabs[c][TabCtx].status # "live"
               /\ (pc'[c] # pc[c] \/ idx'[c] # idx[c]) =>
                  /\ pc'[c] = "after_primary"
                  /\ runs'[c][1].err = tabs[c][TabCtx].status
                  /\ r'[c].DOM = r[c].DOM]_vars
    /\ \A c \in Calls :
          (pc[c] = "primary" /\ dialogs[c] > 0) ~> Returned(c)

C22_Witness ==
    \E c \in Calls :
        /\ Returned(c)
        /\ DialogFailed(c)
        /\ tabs[c][TabCtx].status = DeadlineExceeded
        /\ PrimaryEnded(c, DeadlineExceeded)
        /\ FallbackEnded(c, NilErr)
        /\ ret[c].err = NilErr

\* C23: a second of time passing, the one that expires tabCtx included,
\* leaves the allocator and the browser context as they are, so a browser
\* context nothing has cancelled is live after the primary deadline; the
\* step that opens the fallback leaves them as they are too, and makes
\* newTabCtx a child of that browser context: done at once with Canceled
\* when the browser context is done, cancelled with it afterwards.  There
\* is one allocator and one browser context per call throughout.
C23_BrowserOutlivesDeadline ==
    /\ [](\A c \in Calls :
            /\ Len(tabs[c]) >= 1 /\ tabs[c][TabCtx].status = DeadlineExceeded
               /\ ~Returned(c) /\ CalledScopes(c) \cap {Actx, BrowserCtx} = {} =>
                  browserCtx[c] = "live" /\ actx[c] = "live"
            /\ Len(tabs[c]) = 2 /\ browserCtx[c] # "live" =>
                  tabs[c][NewTabCtx].status # "live")
    /\ [][\A c \in Calls :
            /\ Tick => browserCtx'[c] = browserCtx[c] /\ actx'[c] = actx[c]
            /\ Len(tabs[c]) >= 1 /\ Len(tabs'[c]) >= 1
               /\ tabs[c][TabCtx].status = "live"
               /\ tabs'[c][TabCtx].status = DeadlineExceeded =>
                  browserCtx'[c] = browserCtx[c] /\ actx'[c] = actx[c]
            /\ OpenFallback(c) =>
                  /\ browserCtx'[c] = browserCtx[c] /\ actx'[c] = actx[c]
                  /\ tabs'[c][NewTabCtx].status =
                        (IF browserCtx[c] # "live" THEN Canceled
                         ELSE IF options[c].Timeout > 0 THEN "live"
                         ELSE DeadlineExceeded)
                  /\ defers'[c] = Append(defers[c], NewTabCtx)]_vars

C23_Witness ==
    \E c \in Calls :
        /\ pc[c] = "fallback"
        /\ cancelCalled[c] = {}
        /\ actx[c] = "live" /\ browserCtx[c] = "live"
        /\ tabs[c][TabCtx].status = DeadlineExceeded
        /\ tabs[c][NewTabCtx].status = "live"
        /\ defers[c] = <<Actx, BrowserCtx, TabCtx, NewTabCtx>>

\* The Err() of scope s of call c, or "live".
StatusOf(c, s) ==
    IF s = Actx THEN actx[c]
    ELSE IF s = BrowserCtx THEN browserCtx[c]
    ELSE tabs[c][s].status

\* The scopes call c has made.
OpenScopes(c) ==
    IF actx[c] = "none" THEN {} ELSE {Actx, BrowserCtx} \cup (1..Len(tabs[c]))

\* C24: calling the cancel function of a scope a second time changes
\* nothing: in every state, the scopes after two calls are those after one;
\* in every step of a call in progress, a scope whose cancel function was
\* called before keeps its Err(), whoever calls it again (the dialog
\* goroutine after a crash, line 227, the deferred calls); and on the
\* success path, where cancelTabCtx is called at line 227 and again as a
\* deferred call, tabCtx is left as line 227 left it and Image returns the
\* image with a nil error.
C24_CancelIdempotent ==
    /\ [](\A c \in Calls : \A s \in OpenScopes(c) :
            LET once == CancelScope(Scopes(c), s, "defer")
                twice == CancelScope(once, s, "defer")
            IN twice = once)
    /\ [][\A c \in Calls :
            /\ \A s \in OpenScopes(c) :
                  s \in CalledScopes(c) /\ pc'[c] # "idle" =>
                      StatusOf(c, s)' = StatusOf(c, s)
            /\ ReturnOk(c) =>
                  /\ tabs'[c][TabCtx]
                        = CancelScope(Scopes(c), TabCtx, "return").tabs[TabCtx]
                  /\ {<<TabCtx, "return">>, <<TabCtx, "defer">>}
                        \subseteq cancelCalled'[c]
                  /\ ret'[c] = [returned |-> TRUE, image |-> r[c], err |-> NilErr]]_vars

C24_Witness ==
    \E c \in Calls :
        /\ Returned(c)
        /\ ret[c].err = NilErr /\ ret[c].image # NilImage
        /\ {<<TabCtx, "return">>, <<TabCtx, "defer">>,
            <<BrowserCtx, "crash">>, <<BrowserCtx, "defer">>}
              \subseteq cancelCalled[c]
        /\ tabs[c][TabCtx].status = Canceled
        /\ browserCtx[c] = Canceled

\* The pipeline t without its actions from the first Navigate to the first
\* Stop.
WithoutNavigateBlock(t) ==
    SubSeq(t, 1, Pos(t, "Navigate") - 1) \o SubSeq(t, Pos(t, "Stop") + 1, Len(t))

\* C25: for the options of every call, the pipeline buildTasks builds
\* without navigation is the one it builds with navigation less the block
\* from Navigate to Stop, a block of navigation actions only; it starts with
\* the two header actions when HeadersMap is not empty; and the pipelines
\* Image runs are those buildTasks gives for the call's options and the
\* run's doNavigate, so the fallback run's is the primary run's less that
\* block.
C25_FallbackIsPrimaryLessNavigate ==
    \A c \in Calls :
        LET o == options[c]
            with == buildTasks(o, TRUE)
            without == buildTasks(o, FALSE)
        IN
        /\ Count(with, "Navigate") = 1 /\ Count(with, "Stop") = 1
        /\ Pos(with, "Navigate") < Pos(with, "Stop")
        /\ \A i \in Pos(with, "Navigate")..Pos(with, "Stop") :
              with[i] \in NavigateSteps
        /\ without = WithoutNavigateBlock(with)
        /\ o.HeadersMap > 0 =>
              SubSeq(without, 1, 2) = <<"network.Enable", "network.SetExtraHTTPHeaders">>
        /\ \A k \in 1..Len(runs[c]) :
              runs[c][k].tasks = buildTasks(o, runs[c][k].navigate)
        /\ Len(runs[c]) = 2 =>
              runs[c][2].tasks = WithoutNavigateBlock(runs[c][1].tasks)

C25_Witness ==
    \E c \in Calls :
        /\ Len(runs[c]) = 2
        /\ options[c].HeadersMap > 0 /\ options[c].JsCode > 0
        /\ options[c].Delay > 0 /\ ~options[c].AsPDF /\ ~options[c].FullPage
        /\ runs[c][1].tasks =
              <<"network.Enable", "network.SetExtraHTTPHeaders", "Navigate",
                "Evaluate", "Sleep", "Stop", "OuterHTML", "CaptureScreenshot">>
        /\ runs[c][2].tasks =
              <<"network.Enable", "network.SetExtraHTTPHeaders", "OuterHTML",
                "CaptureScreenshot">>

\* C26: under HttpSpec, what Image has returned is an error and no image,
\* whatever the runs have written to r, or an image and no error; the image
\* returned is the one the last run, which returned nil, wrote: its DOM and
\* its capture.  chromeImage hands on the same: the handler answers an
\* error of Image with the error message alone, and a result with the
\* bytes of that image.
C26_ResultXorError ==
    \A c \in Calls :
        /\ Returned(c) =>
              /\ ret[c].returned
              /\ (ret[c].err = NilErr) # (ret[c].image = NilImage)
              /\ ret[c].err = NilErr =>
                    LET run == runs[c][Len(runs[c])] IN
                    /\ run.err = NilErr
                    /\ ret[c].image.DOM = run.ctx
                    /\ ret[c].image.Data = <<run.ctx, run.tasks[Len(run.tasks)]>>
        /\ Returned(c) /\ Handled(c) =>
              IF ret[c].err # NilErr
              THEN /\ http[c].err = ret[c].err
                   /\ http[c].w.body = <<<<"could not make image", ret[c].err>>>>
              ELSE http[c].err # "WriteError" =>
                      /\ http[c].err = NilErr
                      /\ http[c].w.body = <<ret[c].image.Data>>

C26_Witness ==
    \E c \in Calls :
        /\ Returned(c) /\ Handled(c)
        /\ r[c].DOM = NewTabCtx /\ r[c].Data = NoData
        /\ PrimaryEnded(c, DeadlineExceeded)
        /\ FallbackEnded(c, DeadlineExceeded)
        /\ ret[c].err = DeadlineExceeded /\ ret[c].image = NilImage
        /\ http[c].w.status = 500

\* C27: under DiagSpec, the listeners of a call are the crash listener of
\* browserCtx, the crash, dialog, console and network listeners of tabCtx,
\* and, once the fallback is open, the crash listener of newTabCtx and no
\* other on it.  tabCtx is done by then, so while the fallback is open no
\* accept goroutine is started, none that is still in flight ends but by
\* failing, and nothing is logged; and newTabCtx, while its run goes on,
\* ends only by its deadline or by the crash listener of newTabCtx or of
\* browserCtx.
C27_FallbackHasCrashListenerOnly ==
    /\ [](\A c \in Calls :
            /\ listeners[c] \subseteq
                  {<<BrowserCtx, "crash">>, <<TabCtx, "crash">>, <<TabCtx, "dialog">>,
                   <<TabCtx, "console">>, <<TabCtx, "network">>,
                   <<NewTabCtx, "crash">>}
            /\ Len(tabs[c]) = 2 =>
                  /\ {p \in listeners[c] : p[1] = NewTabCtx} = {<<NewTabCtx, "crash">>}
                  /\ {p[1] : p \in {q \in listeners[c] : q[2] # "crash"}} = {TabCtx}
                  /\ tabs[c][TabCtx].status # "live")
    /\ [][\A c \in Calls :
            Len(tabs[c]) = 2 /\ Len(tabs'[c]) = 2 =>
                /\ dialogs'[c] <= dialogs[c]
                /\ dialogs'[c] < dialogs[c] => DialogAcceptFailed(c)
                /\ logged'[c] = logged[c]
                /\ pc'[c] = "fallback" /\ tabs[c][NewTabCtx].status = "live"
                   /\ tabs'[c][NewTabCtx].status # "live" =>
                      \/ Tick /\ tabs'[c][NewTabCtx].status = DeadlineExceeded
                      \/ /\ tabs'[c][NewTabCtx].status = Canceled
                         /\ TargetCrashed(c, NewTabCtx) \/ TargetCrashed(c, BrowserCtx)]_vars

C27_Witness ==
    \E c \in Calls :
        /\ pc[c] = "fallback"
        /\ Cardinality(listeners[c]) = 6
        /\ dialogs[c] > 0
        /\ logged[c] = MaxLogged
        /\ tabs[c][NewTabCtx].status = Canceled
        /\ cancelCalled[c] = {<<NewTabCtx, "crash">>}

====
